---------------------------- MODULE Spec2Model ----------------------------
(***************************************************************************)
(* Model of Knowledge_Distillation.py: the entry point (argument parsing,  *)
(* rotation of the output directory, dispatch), the two training routines  *)
(* train and train_kd, and the teacher checkpoint key normalisation.       *)
(*                                                                         *)
(* TorchTrainer (src/trainer.py of the repository) is not among the        *)
(* sources; its epoch/batch loop is modelled from sections 4.1-4.3 of the  *)
(* specification and marked as such.                                       *)
(***************************************************************************)
EXTENDS Integers, Sequences, FiniteSets, TLC

\* ------------------------------------------------------------------ bounds
MaxRuns == 2
MaxEpochs == 2
NumBatches == 2
MaxF1 == 2
MaxItems == 2
MaxPrefix == 2

\* --------------------------------------------------------------- variables
VARIABLES
    \* file system, persistent across invocations
    logDir, archive, clock,
    \* one invocation of the script
    runs, pc, error, argv, distill_mode, device, fp16, n_epoch,
    startLog, startArchive, called, overwritten,
    \* inside train / train_kd
    val_dl, params, optimizer, scaler, trainerModel, epoch, batch, grad,
    scaled, hist, savedAt, evalSplit, finalEvals, result,
    \* teacher checkpoint key normalisation (lines 138-143)
    state_dict, idx, temp

fsVars == <<logDir, archive, clock>>
runVars == <<runs, pc, error, argv, distill_mode, device, fp16, n_epoch,
             startLog, startArchive, called, overwritten>>
trainVars == <<val_dl, params, optimizer, scaler, trainerModel, epoch, batch,
               grad, scaled, hist, savedAt, evalSplit, finalEvals, result>>
keyVars == <<state_dict, idx, temp>>
vars == <<fsVars, runVars, trainVars, keyVars>>

\* ------------------------------------------------------------- file system
\* A model's parameters: where they come from and how many optimizer steps
\* have been applied to them since.
NoParams == [base |-> "none", steps |-> 0]
InitParams == [base |-> "init", steps |-> 0]
CkptParams == [base |-> "teacher_ckpt", steps |-> 0]

\* A checkpoint file: the run that wrote it, the parameters in it, its mtime.
NoFile == [run |-> 0, params |-> NoParams, mtime |-> 0]
\* A directory: whether it exists, the run that wrote data.yml/model.yml
\* into it (0: none), and its best.pt.
NoDir == [exists |-> FALSE, ymlBy |-> 0, best |-> NoFile]
EmptyDir == [exists |-> TRUE, ymlBy |-> 0, best |-> NoFile]

HasFile(f) == f.run # 0

\* ------------------------------------------------------------ entry point
\* argparse with type=bool: the flag's string is converted by bool(), which
\* is True for every non-empty string; an omitted flag keeps default=False.
PyBool(s) == s # ""

ParseDistillMode(av) ==
    IF av = <<>> THEN FALSE ELSE PyBool(av[2])

ArgvChoices ==
    {<<>>} \cup {<<"--distill_mode", v>> : v \in {"True", "False", ""}}

Devices == {"cpu", "cuda:0"}

Models == {"student", "teacher"}

NoTrain ==
    /\ val_dl = "unset" /\ params = [m \in Models |-> NoParams]
    /\ optimizer = {} /\ scaler = "unset" /\ trainerModel = "unset"
    /\ epoch = 0 /\ batch = 0 /\ grad = <<0, 0>> /\ scaled = FALSE
    /\ hist = <<>> /\ savedAt = {} /\ evalSplit = "unset"
    /\ finalEvals = <<>> /\ result = <<>>

NoTrain_next ==
    /\ val_dl' = "unset" /\ params' = [m \in Models |-> NoParams]
    /\ optimizer' = {} /\ scaler' = "unset" /\ trainerModel' = "unset"
    /\ epoch' = 0 /\ batch' = 0 /\ grad' = <<0, 0>> /\ scaled' = FALSE
    /\ hist' = <<>> /\ savedAt' = {} /\ evalSplit' = "unset"
    /\ finalEvals' = <<>> /\ result' = <<>>

NoKeys == state_dict = <<>> /\ idx = 0 /\ temp = <<>>

Init ==
    /\ logDir = NoDir /\ archive = {} /\ clock = 0
    /\ runs = 0 /\ pc = "idle" /\ error = "none" /\ argv = <<>>
    /\ distill_mode = FALSE /\ device = "cpu" /\ fp16 = FALSE /\ n_epoch = 0
    /\ startLog = NoDir /\ startArchive = {} /\ called = <<>>
    /\ overwritten = FALSE
    /\ NoTrain
    /\ NoKeys

\* Lines 198-254: a new process parses its arguments, reads the configs and
\* picks the device.
Invoke ==
    /\ pc \in {"idle", "done", "failed"}
    /\ runs < MaxRuns
    /\ runs' = runs + 1
    /\ \E av \in ArgvChoices :
          /\ argv' = av
          /\ distill_mode' = ParseDistillMode(av)
    /\ device' \in Devices
    /\ fp16' \in BOOLEAN
    /\ n_epoch' \in 0..MaxEpochs
    /\ startLog' = logDir /\ startArchive' = archive
    /\ called' = <<>> /\ error' = "none"
    /\ pc' = "rotate"
    /\ NoTrain_next
    /\ UNCHANGED <<fsVars, overwritten, keyVars>>

\* Line 258: the sibling's name is the formatted mtime of log_dir/best.pt.
NewLogDirName(dir) == dir.best.mtime

\* Lines 256-259: an existing log_dir is renamed after the mtime of its
\* best.pt; os.path.getmtime raises FileNotFoundError when best.pt is absent.
Rotate ==
    /\ pc = "rotate"
    /\ IF logDir.exists
         THEN IF HasFile(logDir.best)
                THEN /\ archive' = archive \cup
                            {[name |-> NewLogDirName(logDir), dir |-> logDir]}
                     /\ logDir' = NoDir
                     /\ pc' = "makedirs" /\ error' = error
                ELSE /\ pc' = "failed" /\ error' = "FileNotFoundError"
                     /\ UNCHANGED <<logDir, archive>>
         ELSE /\ pc' = "makedirs"
              /\ UNCHANGED <<logDir, archive, error>>
    /\ UNCHANGED <<clock, runs, argv, distill_mode, device, fp16, n_epoch,
                   startLog, startArchive, called, overwritten, trainVars,
                   keyVars>>

\* Line 261: os.makedirs(log_dir, exist_ok=True).
MakeDirs ==
    /\ pc = "makedirs"
    /\ logDir' = IF logDir.exists THEN logDir ELSE EmptyDir
    /\ pc' = "dispatch"
    /\ UNCHANGED <<archive, clock, runs, error, argv, distill_mode, device,
                   fp16, n_epoch, startLog, startArchive, called, overwritten,
                   trainVars, keyVars>>

\* A dispatch that ignores the flag.
CalleeIgnoringFlag(mode) == "train"

\* Lines 271-292: which routine the flag selects.
Callee(mode) == IF mode = TRUE THEN "train_kd" ELSE "train"

\* Lines 271-292: in distillation mode the teacher checkpoint must be a file
\* (assert, line 273); then the selected routine is called.
Dispatch ==
    /\ pc = "dispatch"
    /\ \E isfile \in BOOLEAN :
         IF distill_mode = TRUE /\ ~isfile
           THEN /\ pc' = "failed" /\ error' = "AssertionError"
                /\ called' = called
           ELSE /\ pc' = "configs" /\ error' = error
                /\ called' = Append(called, Callee(distill_mode))
    /\ UNCHANGED <<fsVars, runs, argv, distill_mode, device, fp16, n_epoch,
                   startLog, startArchive, overwritten, trainVars, keyVars>>

InTraining ==
    pc \in {"configs", "teacher", "trainer", "fwd", "bwd", "step",
            "validate", "ckpt", "load", "test"}

KD == called # <<>> /\ called[Len(called)] = "train_kd"

\* ------------------------------------------------------ train and train_kd
\* Lines 37-46 (train) and 117-127 (train_kd): data.yml and model.yml are
\* written into log_dir and the (student) model is constructed.
SaveConfigs ==
    /\ pc = "configs"
    /\ overwritten' = (overwritten \/ logDir.ymlBy \notin {0, runs})
    /\ logDir' = [logDir EXCEPT !.ymlBy = runs]
    /\ params' = [params EXCEPT !["student"] = InitParams]
    /\ pc' = IF KD THEN "teacher" ELSE "trainer"
    /\ UNCHANGED <<archive, clock, runs, error, argv, distill_mode, device,
                   fp16, n_epoch, startLog, startArchive, called, val_dl,
                   optimizer, scaler, trainerModel, epoch, batch, grad,
                   scaled, hist, savedAt, evalSplit, finalEvals, result,
                   keyVars>>

\* Lines 132-145: the teacher is built and the checkpoint's values are
\* loaded into it (strict=False).
LoadTeacher ==
    /\ pc = "teacher"
    /\ params' = [params EXCEPT !["teacher"] = CkptParams]
    /\ pc' = "trainer"
    /\ UNCHANGED <<fsVars, runs, error, argv, distill_mode, device, fp16,
                   n_epoch, startLog, startArchive, called, overwritten,
                   val_dl, optimizer, scaler, trainerModel, epoch, batch,
                   grad, scaled, hist, savedAt, evalSplit, finalEvals,
                   result, keyVars>>

\* An optimizer built over both models' parameters.
OptimizerParamsWithTeacher == {"student", "teacher"}

\* Lines 52-54 and 151-153: the models whose parameters the SGD optimizer
\* holds.
OptimizerParams == {"student"}

\* A scaler created from the precision flag alone.
ScalerIgnoringDevice(flag, dev) == IF flag THEN "GradScaler" ELSE "None"

\* Lines 69-71 and 168-170: the mixed-precision gradient scaler.
Scaler(flag, dev) == IF flag /\ dev # "cpu" THEN "GradScaler" ELSE "None"

\* Lines 75 and 174: the model handed to the trainer.
TrainerModel == "student"

\* Lines 87 and 188: the loader handed to the trainer for validation.
ValLoader(v) == IF v # "None" THEN v ELSE "test_dl"

\* A final evaluation that always takes the test split.
TestLoaderAlwaysTest(v) == "test_dl"

\* Lines 93 and 193: the loader of the final evaluation.
TestLoader(v) == IF v # "None" THEN v ELSE "test_dl"

\* A trainer that steps the optimizer before backpropagation.
BatchOrderStepFirst == <<"fwd", "step", "bwd">>

\* The order of the trainer's steps on one batch (specification 4.1, 5).
BatchOrder == <<"fwd", "bwd", "step">>

\* The trainer's position after step p of a batch.
AfterBatchStep(p) ==
    LET i == CHOOSE j \in 1..Len(BatchOrder) : BatchOrder[j] = p
    IN  IF i < Len(BatchOrder) THEN BatchOrder[i + 1]
        ELSE IF batch < NumBatches THEN BatchOrder[1] ELSE "validate"

BatchAfter(p) ==
    IF p = BatchOrder[Len(BatchOrder)] /\ batch < NumBatches
      THEN batch + 1 ELSE batch

\* Lines 49-88 and 148-189: dataloaders, optimizer, scheduler (OneCycleLR
\* rejects epochs <= 0 with ValueError), criterion, scaler and trainer are
\* created and the trainer's loop is entered.
CreateTrainer ==
    /\ pc = "trainer"
    /\ \E v \in {"None", "val_dl"} : val_dl' = v
    /\ optimizer' = OptimizerParams
    /\ IF n_epoch <= 0
         THEN /\ pc' = "failed" /\ error' = "ValueError"
              /\ UNCHANGED <<scaler, trainerModel, epoch, batch, evalSplit>>
         ELSE /\ scaler' = Scaler(fp16, device)
              /\ trainerModel' = TrainerModel
              /\ evalSplit' = ValLoader(val_dl')
              /\ epoch' = 1 /\ batch' = 1
              /\ pc' = BatchOrder[1] /\ error' = error
    /\ UNCHANGED <<fsVars, runs, argv, distill_mode, device, fp16, n_epoch,
                   startLog, startArchive, called, overwritten, params, grad,
                   scaled, hist, savedAt, finalEvals, result, keyVars>>

\* Trainer, per batch: predictions (student, and teacher without gradient
\* tracking in distillation) and the loss.
Forward ==
    /\ pc = "fwd"
    /\ pc' = AfterBatchStep("fwd")
    /\ batch' = BatchAfter("fwd")
    /\ UNCHANGED <<fsVars, runs, error, argv, distill_mode, device, fp16,
                   n_epoch, startLog, startArchive, called, overwritten,
                   val_dl, params, optimizer, scaler, trainerModel, epoch,
                   grad, scaled, hist, savedAt, evalSplit, finalEvals,
                   result, keyVars>>

\* Trainer, per batch: backpropagation of the batch's loss, scaled when a
\* scaler is present.
Backward ==
    /\ pc = "bwd"
    /\ grad' = <<epoch, batch>>
    /\ scaled' = (scaler # "None")
    /\ pc' = AfterBatchStep("bwd")
    /\ batch' = BatchAfter("bwd")
    /\ UNCHANGED <<fsVars, runs, error, argv, distill_mode, device, fp16,
                   n_epoch, startLog, startArchive, called, overwritten,
                   val_dl, params, optimizer, scaler, trainerModel, epoch,
                   hist, savedAt, evalSplit, finalEvals, result, keyVars>>

\* Trainer, per batch: the optimizer (and scheduler) step updates the
\* parameters the optimizer holds.
OptStep ==
    /\ pc = "step"
    /\ params' = [m \in Models |->
                    IF m \in optimizer
                      THEN [params[m] EXCEPT !.steps = @ + 1]
                      ELSE params[m]]
    /\ pc' = AfterBatchStep("step")
    /\ batch' = BatchAfter("step")
    /\ UNCHANGED <<fsVars, runs, error, argv, distill_mode, device, fp16,
                   n_epoch, startLog, startArchive, called, overwritten,
                   val_dl, optimizer, scaler, trainerModel, epoch, grad,
                   scaled, hist, savedAt, evalSplit, finalEvals, result,
                   keyVars>>

\* Trainer, per epoch: evaluation on the held-out split yields the epoch's F1.
Validate ==
    /\ pc = "validate"
    /\ \E f \in 0..MaxF1 : hist' = Append(hist, f)
    /\ pc' = "ckpt"
    /\ UNCHANGED <<fsVars, runs, error, argv, distill_mode, device, fp16,
                   n_epoch, startLog, startArchive, called, overwritten,
                   val_dl, params, optimizer, scaler, trainerModel, epoch,
                   batch, grad, scaled, savedAt, evalSplit, finalEvals,
                   result, keyVars>>

\* A trainer that writes the checkpoint after every epoch.
ImprovesAlways(f, h) == TRUE

\* Whether F1 f improves over all the epochs in h.
Improves(f, h) == \A i \in 1..Len(h) : f > h[i]

\* Trainer, per epoch: the model's parameters are written to model_path
\* when the epoch's F1 improves over all prior epochs.
Checkpoint ==
    /\ pc = "ckpt"
    /\ IF Improves(hist[Len(hist)], SubSeq(hist, 1, Len(hist) - 1))
         THEN /\ logDir' = [logDir EXCEPT !.best =
                    [run |-> runs, params |-> params[trainerModel],
                     mtime |-> clock + 1]]
              /\ clock' = clock + 1
              /\ savedAt' = savedAt \cup {epoch}
              /\ overwritten' =
                    (overwritten \/ logDir.best.run \notin {0, runs})
         ELSE UNCHANGED <<logDir, clock, savedAt, overwritten>>
    /\ IF epoch < n_epoch
         THEN epoch' = epoch + 1 /\ batch' = 1 /\ pc' = BatchOrder[1]
         ELSE pc' = "load" /\ UNCHANGED <<epoch, batch>>
    /\ UNCHANGED <<archive, runs, error, argv, distill_mode, device, fp16,
                   n_epoch, startLog, startArchive, called, val_dl, params,
                   optimizer, scaler, trainerModel, grad, scaled, hist,
                   evalSplit, finalEvals, result, keyVars>>

\* Lines 91 and 191: the parameters stored at model_path are loaded into
\* the trained model.
LoadBest ==
    /\ pc = "load"
    /\ IF HasFile(logDir.best)
         THEN /\ params' = [params EXCEPT !["student"] = logDir.best.params]
              /\ pc' = "test" /\ error' = error
         ELSE /\ pc' = "failed" /\ error' = "FileNotFoundError"
              /\ params' = params
    /\ UNCHANGED <<fsVars, runs, argv, distill_mode, device, fp16, n_epoch,
                   startLog, startArchive, called, overwritten, val_dl,
                   optimizer, scaler, trainerModel, epoch, batch, grad,
                   scaled, hist, savedAt, evalSplit, finalEvals, result,
                   keyVars>>

\* The triple trainer.test returns for an evaluation.
TestResult(ev) ==
    <<[metric |-> "loss", of |-> ev], [metric |-> "f1", of |-> ev],
      [metric |-> "acc", of |-> ev]>>

\* Lines 92-95 and 192-195: one evaluation of the model, whose triple is
\* returned to the entry point.
FinalTest ==
    /\ pc = "test"
    /\ LET ev == [split |-> TestLoader(val_dl), params |-> params["student"]]
       IN  /\ finalEvals' = Append(finalEvals, ev)
           /\ result' = TestResult(ev)
    /\ pc' = "done"
    /\ UNCHANGED <<fsVars, runs, error, argv, distill_mode, device, fp16,
                   n_epoch, startLog, startArchive, called, overwritten,
                   val_dl, params, optimizer, scaler, trainerModel, epoch,
                   batch, grad, scaled, hist, savedAt, evalSplit, keyVars>>

\* Specification 7: any other failure during training is fatal and ends
\* the process.
Abort ==
    /\ InTraining
    /\ pc' = "failed" /\ error' = "RuntimeError"
    /\ UNCHANGED <<fsVars, runs, argv, distill_mode, device, fp16, n_epoch,
                   startLog, startArchive, called, overwritten, trainVars,
                   keyVars>>

Next ==
    \/ Invoke
    \/ Rotate
    \/ MakeDirs
    \/ Dispatch
    \/ SaveConfigs
    \/ LoadTeacher
    \/ CreateTrainer
    \/ Forward
    \/ Backward
    \/ OptStep
    \/ Validate
    \/ Checkpoint
    \/ LoadBest
    \/ FinalTest
    \/ Abort

Spec == Init /\ [][Next]_vars

\* ------------------------------------ teacher checkpoint key normalisation
\* Keys are strings, modelled as sequences of characters.
HeadDot == <<"h", "e", "a", "d", ".">>

\* Python's str.replace(old, new): every non-overlapping occurrence of old,
\* found scanning from the left, is replaced by new.
RECURSIVE Replace(_, _, _)
Replace(s, old, new) ==
    IF Len(s) < Len(old) \/ Len(old) = 0 THEN s
    ELSE IF SubSeq(s, 1, Len(old)) = old
           THEN new \o Replace(SubSeq(s, Len(old) + 1, Len(s)), old, new)
           ELSE <<s[1]>> \o Replace(Tail(s), old, new)

\* Line 141: name = n.replace("head.", "").
NormalizedName(n) == Replace(n, HeadDot, <<>>)

\* Line 142: temp[name] = v on an OrderedDict: an existing key keeps its
\* position and takes the new value, a new key is appended.
DictSet(d, name, v) ==
    IF \E i \in 1..Len(d) : d[i].k = name
      THEN [i \in 1..Len(d) |-> IF d[i].k = name THEN [k |-> name, v |-> v]
                                                 ELSE d[i]]
      ELSE Append(d, [k |-> name, v |-> v])

RECURSIVE Concat(_)
Concat(ss) == IF ss = <<>> THEN <<>> ELSE Head(ss) \o Concat(Tail(ss))

\* The keys a saved mapping may hold: a leaf name behind up to MaxPrefix
\* prefixes.
KeyPieces == {HeadDot, <<"n", ".">>, <<"s">>}

CheckpointKeys ==
    {Concat(ps) \o <<"w">> :
        ps \in UNION {[1..n -> KeyPieces] : n \in 0..MaxPrefix}}

\* Saved mappings: up to MaxItems entries with distinct keys; entry i holds
\* tensor i.
Checkpoints ==
    {[i \in 1..Len(ks) |-> [k |-> ks[i], v |-> i]] :
        ks \in {q \in UNION {[1..n -> CheckpointKeys] : n \in 1..MaxItems} :
                    \A i, j \in 1..Len(q) : i # j => q[i] # q[j]}}

\* Line 138-139: the saved mapping has been read and temp is empty.
InitKeys ==
    /\ logDir = NoDir /\ archive = {} /\ clock = 0
    /\ runs = 0 /\ pc = "idle" /\ error = "none" /\ argv = <<>>
    /\ distill_mode = FALSE /\ device = "cpu" /\ fp16 = FALSE /\ n_epoch = 0
    /\ startLog = NoDir /\ startArchive = {} /\ called = <<>>
    /\ overwritten = FALSE
    /\ NoTrain
    /\ state_dict \in Checkpoints /\ idx = 0 /\ temp = <<>>

\* Lines 140-142: one iteration of the loop over state_dict.items().
NormalizeKey ==
    /\ idx < Len(state_dict)
    /\ LET item == state_dict[idx + 1]
       IN  temp' = DictSet(temp, NormalizedName(item.k), item.v)
    /\ idx' = idx + 1
    /\ UNCHANGED <<fsVars, runVars, trainVars, state_dict>>

NextKeys == NormalizeKey

SpecKeys == InitKeys /\ [][NextKeys]_vars

\* ------------------------------------------------------------- properties
\* The dispatch step (lines 271-292) of the current invocation has run.
DispatchExecuted ==
    /\ pc \notin {"idle", "rotate", "makedirs", "dispatch"}
    /\ ~(pc = "failed" /\ error = "FileNotFoundError" /\ called = <<>>)

\* The trainer has been created and its loop entered.
TrainerRunning ==
    pc \in {"fwd", "bwd", "step", "validate", "ckpt", "load", "test", "done"}

\* C1, as claimed: every invocation that has executed the dispatch step has
\* called exactly one of train and train_kd, exactly once, the one the
\* distillation-mode flag selects.
C1_ExactlyOneCalled ==
    DispatchExecuted =>
        called = <<IF distill_mode THEN "train_kd" ELSE "train">>

\* C1, amended: at most one of train and train_kd is ever called, and once
\* the dispatch step has run exactly the one the flag selects has been called
\* once, except that a failed teacher-checkpoint assertion (distillation mode,
\* no checkpoint file) ends the run with neither called; nothing of train_kd
\* (the teacher) appears in a run of train.
C1_OneCalledUnlessAssertFails ==
    /\ Len(called) <= 1
    /\ DispatchExecuted =>
          IF error = "AssertionError"
            THEN called = <<>> /\ distill_mode
            ELSE called = <<IF distill_mode THEN "train_kd" ELSE "train">>
    /\ called = <<"train">> =>
          pc # "teacher" /\ params["teacher"] = NoParams

C1_Witness ==
    /\ pc = "done" /\ called = <<"train_kd">> /\ distill_mode
    /\ runs = 2 /\ startLog.exists

\* C2, as claimed: when the distillation flag is set and the teacher
\* checkpoint is no file, the run ends with the same directories as it
\* started with: no log_dir created, no existing log_dir renamed.
C2_NoDirectoryOnMissingCkpt ==
    (pc = "failed" /\ distill_mode /\ error = "AssertionError") =>
        /\ logDir.exists = startLog.exists
        /\ logDir = startLog
        /\ archive = startArchive

\* The parameters of a model trained from construction through epoch e.
ParamsAfterEpoch(e) == [base |-> "init", steps |-> e * NumBatches]

\* The epochs a checkpoint step has handled so far.
Processed == IF pc = "ckpt" THEN Len(hist) - 1 ELSE Len(hist)

\* The first epoch, among the first n, with the highest F1.
BestEpoch(n) ==
    CHOOSE e \in 1..n :
        /\ \A i \in 1..n : hist[i] <= hist[e]
        /\ \A i \in 1..(e - 1) : hist[i] < hist[e]

\* C3: in either mode, once an epoch has been handled, best.pt of log_dir is
\* this run's and holds the parameters the model had after the epoch with the
\* highest validation F1 so far, and it was written exactly at the epochs
\* whose F1 improved over all prior epochs; after N >= 1 epochs this is the
\* best of all N epochs, not merely the last.
C3_BestCheckpointIsBestEpoch ==
    (TrainerRunning /\ Processed >= 1) =>
        /\ logDir.best.run = runs
        /\ logDir.best.params = ParamsAfterEpoch(BestEpoch(Processed))
        /\ savedAt = {e \in 1..Processed :
                        \A i \in 1..(e - 1) : hist[i] < hist[e]}
        /\ (pc \in {"load", "test", "done"} => Processed = n_epoch)

C3_Witness ==
    /\ pc = "done" /\ n_epoch = 2 /\ hist[1] > hist[2]
    /\ logDir.best.params = ParamsAfterEpoch(1)

\* C4: in distillation mode, from the loading of the teacher checkpoint to
\* the end of the run, the teacher's parameters are those of the checkpoint:
\* the optimizer holds the student's parameters only and no step changes the
\* teacher.
C4_TeacherFrozen ==
    (KD /\ (pc = "trainer" \/ TrainerRunning)) =>
        /\ params["teacher"] = CkptParams
        /\ (pc # "trainer" => optimizer = {"student"})

C4_Witness ==
    /\ KD /\ pc = "done" /\ params["teacher"] = CkptParams
    /\ params["student"].steps = 2 * NumBatches

\* C5, as claimed: a run that found log_dir existing, once past the rotation
\* step, has renamed it to a sibling named by the mtime of its best.pt, has
\* (after makedirs) a fresh log_dir, and has not failed in rotation; and no
\* file of an earlier run is ever overwritten.
C5_RotatesAndContinues ==
    /\ (startLog.exists /\ pc \notin {"idle", "rotate"}) =>
          /\ [name |-> startLog.best.mtime, dir |-> startLog] \in archive
          /\ (pc # "makedirs" => logDir.exists)
          /\ logDir.ymlBy \in {0, runs} /\ logDir.best.run \in {0, runs}
          /\ ~(pc = "failed" /\ error = "FileNotFoundError" /\ called = <<>>)
    /\ ~overwritten

\* The key with a leading "head." removed, unchanged otherwise.
StripPrefix(n) ==
    IF Len(n) >= Len(HeadDot) /\ SubSeq(n, 1, Len(HeadDot)) = HeadDot
      THEN SubSeq(n, Len(HeadDot) + 1, Len(n))
      ELSE n

DictKeys(d) == {d[i].k : i \in 1..Len(d)}

\* C6, as claimed: after the loop, the keys handed to the teacher are the
\* saved keys with their leading "head." removed (others unchanged); and when
\* every saved key carries the prefix, no entry is lost and each value sits
\* under its own stripped key.
C6_StripsLeadingPrefix ==
    idx = Len(state_dict) =>
        /\ DictKeys(temp) = {StripPrefix(k) : k \in DictKeys(state_dict)}
        /\ (\A i \in 1..Len(state_dict) :
                StripPrefix(state_dict[i].k) # state_dict[i].k) =>
              /\ Len(temp) = Len(state_dict)
              /\ \A i \in 1..Len(state_dict) :
                    [k |-> StripPrefix(state_dict[i].k),
                     v |-> state_dict[i].v] \in {temp[j] : j \in 1..Len(temp)}

\* C7, as claimed: the switch is boolean: "True" selects train_kd, and
\* "False", like an omitted flag, selects train.
C7_FalseSelectsTrain ==
    (called # <<>> /\ argv \in {<<>>, <<"--distill_mode", "True">>,
                                <<"--distill_mode", "False">>}) =>
        called[1] = IF argv = <<"--distill_mode", "True">>
                      THEN "train_kd" ELSE "train"

\* C8: in both loops an optimizer step on a batch happens only when that
\* batch's loss has been backpropagated, and best.pt is written for an epoch
\* only when that epoch's validation has produced its F1.
C8_StepAfterBackwardSaveAfterValidation ==
    [][ /\ (\E m \in Models : params'[m].steps > params[m].steps) =>
              grad = <<epoch, batch>>
        /\ (HasFile(logDir'.best) /\ logDir'.best # logDir.best) =>
              (pc = "ckpt" /\ Len(hist) = epoch) ]_vars

C8_Witness ==
    /\ pc = "load" /\ savedAt = {1, 2} /\ grad = <<2, NumBatches>>
    /\ logDir.best.params.steps = 2 * NumBatches

C10_ScalerIffFp16AndAccelerator ==
    TrainerRunning =>
        /\ scaler \in {"GradScaler", "None"}
        /\ (scaler = "GradScaler") <=> (fp16 /\ device # "cpu")
        /\ scaled => (fp16 /\ device # "cpu")
        /\ (grad # <<0, 0>> /\ fp16 /\ device # "cpu") => scaled

C10_Witness ==
    /\ pc = "done" /\ scaler = "GradScaler" /\ scaled
    /\ fp16 /\ device = "cuda:0"

=============================================================================
